---------------------------- MODULE Spec2Model ----------------------------
(***************************************************************************)
(* BloomBuddy growth tracker (contents/scripts/plant_data.py).             *)
(*                                                                         *)
(* The record file data.json, the PlantState class (load, save,            *)
(* advance_days, water), build_response and main.  Dates are day numbers;  *)
(* JSON values are tagged records, so that int() and strptime() accept and *)
(* reject what they do in Python; a JSON object is a function from its     *)
(* keys to values.                                                         *)
(***************************************************************************)
EXTENDS Integers, Sequences, FiniteSets, TLC

(* ------------------------------ bounds --------------------------------- *)

\* calendar dates are the day numbers 0..MaxDate
MaxDate == 5
\* integers a hand-written record may hold are -1..MaxStored
MaxStored == 4
\* the largest day delta a library client passes to advance_days
MaxDelta == 5
\* number of runs of main plus mutating library calls in one behaviour
MaxOps == 2

Dates == 0..MaxDate
StoredInts == -1..MaxStored
Deltas == {-1, 0, 1, MaxDelta}

(* --------------------------- program constants ------------------------- *)

STAGE_NAMES == <<"seed", "sprout", "leaf", "bloom">>
MAX_STAGE_INDEX == Len(STAGE_NAMES) - 1

known_keys == {"last_opened", "growth_stage", "day_count"}
\* keys of the record the program does not know
ExtraKeys == {"theme"}

Max(a, b) == IF a >= b THEN a ELSE b
Min(a, b) == IF a <= b THEN a ELSE b

(* ------------------------------ JSON values ---------------------------- *)
\* t = "int":    the JSON number v
\* t = "numstr": a JSON string holding the decimal digits of v ("2")
\* t = "date":   the JSON string date.isoformat() writes for day v
\* t = "dateu":  a string strptime("%Y-%m-%d") accepts for day v that is not
\*               the isoformat text (month or day without the leading zero)
\* t = "text":   any other JSON string
\* t = "null":   JSON null
\* Numbers with a fraction, booleans, arrays and nested objects as values of
\* a key are not modelled.
JInt(n) == [t |-> "int", v |-> n]
JNumStr(n) == [t |-> "numstr", v |-> n]
JDate(d) == [t |-> "date", v |-> d]
JDateU(d) == [t |-> "dateu", v |-> d]
JText == [t |-> "text", v |-> 0]
JNull == [t |-> "null", v |-> 0]

EmptyMap == [k \in {} |-> JNull]

\* {**a, **b}: the keys of both, b's value where both have the key
Merge(a, b) ==
    [k \in DOMAIN a \cup DOMAIN b |-> IF k \in DOMAIN b THEN b[k] ELSE a[k]]

\* int(x) raises TypeError for None and ValueError for a non-numeric string
IntRaises(x) == x.t \notin {"int", "numstr"}
IntOf(x) == x.v

\* datetime.strptime(x, "%Y-%m-%d") raises TypeError for a non-string and
\* ValueError for a string of another format; both are caught in load
StrptimeRaises(x) == x.t \notin {"date", "dateu"}
Strptime(x) == x.v

\* mutant: the date is written in a format strptime("%Y-%m-%d") rejects
IsoformatOtherFormat(d) == JText

\* date.isoformat()
Isoformat(d) == JDate(d)

(* ------------------------------ record file ---------------------------- *)
\* kind = "absent":    DATA_FILE does not exist
\* kind = "corrupt":   read_text or json.loads raises (OSError, JSONDecodeError)
\* kind = "nonobject": valid JSON whose top-level value is not an object
\* kind = "object":    a JSON object, obj
FileAbsent == [kind |-> "absent", obj |-> EmptyMap]
FileCorrupt == [kind |-> "corrupt", obj |-> EmptyMap]
FileNonObject == [kind |-> "nonobject", obj |-> EmptyMap]
FileObject(o) == [kind |-> "object", obj |-> o]

(* ------------------------------- PlantState ---------------------------- *)

PlantState(lo, gs, dc, ex) ==
    [last_opened |-> lo, growth_stage |-> gs, day_count |-> dc, extra |-> ex]

\* mutant: the default day_count is 0
DefaultStateZeroCount(td) == PlantState(td, 0, 0, EmptyMap)

\* cls(last_opened=today): the dataclass defaults
DefaultState(td) == PlantState(td, 0, 1, EmptyMap)

\* mutant: save() forgets **self.extra
PayloadKnownOnly(s) ==
    [k \in known_keys |->
        CASE k = "last_opened" -> Isoformat(s.last_opened)
          [] k = "growth_stage" -> JInt(s.growth_stage)
          [] k = "day_count" -> JInt(s.day_count)]

\* the payload save() writes; in a dict display a later key replaces an
\* earlier one, so a key of extra replaces a known key of the same name
Payload(s) ==
    Merge([k \in known_keys |->
              CASE k = "last_opened" -> Isoformat(s.last_opened)
                [] k = "growth_stage" -> JInt(s.growth_stage)
                [] k = "day_count" -> JInt(s.day_count)],
          s.extra)

\* save(): the file holds the payload, whatever it held
SaveFile(s) == FileObject(Payload(s))

\* raw.get(key, default)
Get(raw, key, default) == IF key \in DOMAIN raw THEN raw[key] ELSE default

\* load(), parseable branch: which statement raises, if any
LoadRaises(f) ==
    \/ f.kind = "nonobject"
    \/ /\ f.kind = "object"
       /\ \/ IntRaises(Get(f.obj, "growth_stage", JInt(0)))
          \/ IntRaises(Get(f.obj, "day_count", JInt(1)))

LoadLastOpened(raw, td) ==
    IF "last_opened" \notin DOMAIN raw \/ StrptimeRaises(raw["last_opened"])
    THEN td
    ELSE Strptime(raw["last_opened"])

LoadGrowthStage(raw) == IntOf(Get(raw, "growth_stage", JInt(0)))

\* mutant: the default of day_count ignores growth_stage
LoadDayCountDefaultOne(raw) == IntOf(Get(raw, "day_count", JInt(1)))

LoadDayCount(raw) ==
    IntOf(Get(raw, "day_count", JInt(Max(1, LoadGrowthStage(raw) + 1))))

LoadExtra(raw) == [k \in DOMAIN raw \ known_keys |-> raw[k]]

\* mutant: growth_stage is capped above but not below
ClampStageNoFloor(g) == Min(g, MAX_STAGE_INDEX)

ClampStage(g) == Max(0, Min(g, MAX_STAGE_INDEX))

ClampDayCount(c) == Max(1, c)

\* load() on file f at date td, when it returns: the state returned
LoadState(f, td) ==
    IF f.kind \in {"absent", "corrupt"}
    THEN DefaultState(td)
    ELSE PlantState(LoadLastOpened(f.obj, td),
                    ClampStage(LoadGrowthStage(f.obj)),
                    ClampDayCount(LoadDayCount(f.obj)),
                    LoadExtra(f.obj))

\* load() on file f at date td: the file it leaves
LoadFile(f, td) ==
    IF f.kind \in {"absent", "corrupt"} THEN SaveFile(DefaultState(td)) ELSE f

\* mutant: growth_stage is not capped
AdvanceDaysUnclamped(s, days, td) ==
    IF days <= 0
    THEN s
    ELSE [s EXCEPT !.growth_stage = s.growth_stage + days,
                   !.day_count = s.day_count + days,
                   !.last_opened = td]

\* mutant: day_count is set to days, not increased by it
AdvanceDaysSetsCount(s, days, td) ==
    IF days <= 0
    THEN s
    ELSE [s EXCEPT !.growth_stage = Min(s.growth_stage + days, MAX_STAGE_INDEX),
                   !.day_count = days,
                   !.last_opened = td]

\* mutant: the guard is days < 0
AdvanceDaysOnZero(s, days, td) ==
    IF days < 0
    THEN s
    ELSE [s EXCEPT !.growth_stage = Min(s.growth_stage + days, MAX_STAGE_INDEX),
                   !.day_count = s.day_count + days,
                   !.last_opened = td]

\* mutant: advance_days leaves last_opened alone
AdvanceDaysNoStamp(s, days, td) ==
    IF days <= 0
    THEN s
    ELSE [s EXCEPT !.growth_stage = Min(s.growth_stage + days, MAX_STAGE_INDEX),
                   !.day_count = s.day_count + days]

\* advance_days(days) at date td
AdvanceDays(s, days, td) ==
    IF days <= 0
    THEN s
    ELSE [s EXCEPT !.growth_stage = Min(s.growth_stage + days, MAX_STAGE_INDEX),
                   !.day_count = s.day_count + days,
                   !.last_opened = td]

\* mutant: day_count is raised to what the stage before watering implies
WaterOldStage(s, td) ==
    LET g == IF s.growth_stage < MAX_STAGE_INDEX
             THEN s.growth_stage + 1
             ELSE s.growth_stage
    IN  [s EXCEPT !.growth_stage = g,
                  !.day_count = Max(s.day_count, s.growth_stage + 1),
                  !.last_opened = td]

\* mutant: watering a plant in bloom starts it over
WaterWraps(s, td) ==
    LET g == IF s.growth_stage < MAX_STAGE_INDEX THEN s.growth_stage + 1 ELSE 0
    IN  [s EXCEPT !.growth_stage = g,
                  !.day_count = Max(s.day_count, g + 1),
                  !.last_opened = td]

\* water() at date td
Water(s, td) ==
    LET g == IF s.growth_stage < MAX_STAGE_INDEX
             THEN s.growth_stage + 1
             ELSE s.growth_stage
    IN  [s EXCEPT !.growth_stage = g,
                  !.day_count = Max(s.day_count, g + 1),
                  !.last_opened = td]

\* mutant: the image is named after the stage that follows
BuildResponseNextImage(s, days_idle) ==
    LET stage_name == STAGE_NAMES[s.growth_stage + 1]
        next_name == STAGE_NAMES[Min(s.growth_stage + 1, MAX_STAGE_INDEX) + 1]
    IN  [stage |-> stage_name,
         stage_index |-> s.growth_stage,
         day |-> s.day_count,
         image |-> "assets/plant_" \o next_name \o ".png",
         is_wilted |-> days_idle > 3,
         days_idle |-> days_idle]

\* build_response(state, days_idle)
BuildResponse(s, days_idle) ==
    LET stage_name == STAGE_NAMES[s.growth_stage + 1]
    IN  [stage |-> stage_name,
         stage_index |-> s.growth_stage,
         day |-> s.day_count,
         image |-> "assets/plant_" \o stage_name \o ".png",
         is_wilted |-> days_idle > 3,
         days_idle |-> days_idle]


(* ------------------------------- state --------------------------------- *)

\* the widget instances that may invoke the script
Procs == {"w1", "w2"}

VARIABLES
    file,     \* DATA_FILE
    today,    \* what date.today() returns
    pc,       \* per instance: where it is in main, or "lib" in a library session
    st,       \* per instance: the PlantState object it holds
    flag,     \* per instance: args.water
    days,     \* per instance: days_since_last_open
    out,      \* per instance: the response its run printed
    loaded,   \* history: the state load() returned to the run of main
    last,     \* history: the last call of a library client on its object,
              \* or the branch the load() of a run of main took
    rt,       \* history: progress of a load(); save(); load() sequence
    nOps      \* number of runs and mutating library calls so far

vars == <<file, today, pc, st, flag, days, out, loaded, last, rt, nOps>>

NoResponse == [stage |-> "", stage_index |-> 0, day |-> 0, image |-> "",
               is_wilted |-> FALSE, days_idle |-> 0]

NoCall == [op |-> "none", arg |-> 0]
Call(op, arg) == [op |-> op, arg |-> arg]

\* rt = 1: load() returned; 2: save() followed it; 3: load() followed that
\* and returned; 4: it raised; 0: anything else, or the date changed

\* the values a key of a hand-written or older record may hold
StoredLastOpened ==
    {JDate(0), JDate(MaxDate), JDateU(1), JText}
StoredStage ==
    {JInt(n) : n \in StoredInts} \cup {JNumStr(2), JText}
StoredCount ==
    {JInt(n) : n \in {0, 1, 2, MaxStored}} \cup {JNumStr(2), JNull}
StoredExtra == {JText}

\* the objects with any subset of the keys, each key with any of its values
StoredObjects ==
    { Merge(Merge(lo, gs), Merge(dc, ex)) :
        lo \in {EmptyMap} \cup {[k \in {"last_opened"} |-> x] : x \in StoredLastOpened},
        gs \in {EmptyMap} \cup {[k \in {"growth_stage"} |-> x] : x \in StoredStage},
        dc \in {EmptyMap} \cup {[k \in {"day_count"} |-> x] : x \in StoredCount},
        ex \in {EmptyMap} \cup {[k \in ExtraKeys |-> x] : x \in StoredExtra} }

StoredFiles ==
    {FileAbsent, FileCorrupt, FileNonObject} \cup {FileObject(o) : o \in StoredObjects}

Init ==
    /\ file \in StoredFiles
    /\ today \in Dates
    /\ pc = [p \in Procs |-> "idle"]
    /\ st = [p \in Procs |-> DefaultState(0)]
    /\ flag = [p \in Procs |-> FALSE]
    /\ days = [p \in Procs |-> 0]
    /\ out = [p \in Procs |-> NoResponse]
    /\ loaded = [p \in Procs |-> DefaultState(0)]
    /\ last = NoCall
    /\ rt = 0
    /\ nOps = 0

\* the date a later date.today() of the same step returns: midnight may pass
Later(td) == {td, td + 1} \cap Dates

(* ------------------------------- the clock ----------------------------- *)

\* midnight passes
Tick ==
    /\ today < MaxDate
    /\ today' = today + 1
    /\ rt' = 0
    /\ UNCHANGED <<file, pc, st, flag, days, out, loaded, last, nOps>>

\* the system clock is set back a day, while no instance runs
ClockBack ==
    /\ today > 0
    /\ \A p \in Procs : pc[p] = "idle"
    /\ today' = today - 1
    /\ rt' = 0
    /\ UNCHANGED <<file, pc, st, flag, days, out, loaded, last, nOps>>

(* --------------------------------- main -------------------------------- *)

\* main, lines 129-130: parse_args, then PlantState.load()
MainLoad(p, w) ==
    /\ pc[p] = "idle"
    /\ nOps < MaxOps
    /\ nOps' = nOps + 1
    /\ flag' = [flag EXCEPT ![p] = w]
    /\ rt' = 0
    /\ IF LoadRaises(file)
       THEN /\ pc' = [pc EXCEPT ![p] = "raised"]
            /\ UNCHANGED <<file, st, loaded, last>>
       ELSE /\ pc' = [pc EXCEPT ![p] = "loaded"]
            /\ st' = [st EXCEPT ![p] = LoadState(file, today)]
            /\ loaded' = [loaded EXCEPT ![p] = LoadState(file, today)]
            /\ file' = LoadFile(file, today)
            /\ last' = IF file.kind \in {"absent", "corrupt"}
                       THEN Call("load_default", 0)
                       ELSE Call("load", 0)
    /\ UNCHANGED <<today, days, out>>

\* mutant: main waters before it advances the elapsed days
MainUpdateWaterFirst(p) ==
    /\ pc[p] = "loaded"
    /\ \E t1 \in Later(today) : \E t2 \in Later(t1) :
         LET d == today - st[p].last_opened
             s1 == IF flag[p] THEN Water(st[p], t1) ELSE st[p]
             s2 == IF d > 0 THEN AdvanceDays(s1, d, t2) ELSE s1
         IN  /\ flag[p] \/ t1 = today
             /\ days' = [days EXCEPT ![p] = d]
             /\ st' = [st EXCEPT ![p] = s2]
             /\ today' = IF d > 0 THEN t2 ELSE IF flag[p] THEN t1 ELSE today
    /\ pc' = [pc EXCEPT ![p] = "save"]
    /\ UNCHANGED <<file, flag, out, loaded, last, rt, nOps>>

\* mutant: every run counts as a day
MainUpdateCountsRun(p) ==
    /\ pc[p] = "loaded"
    /\ \E t1 \in Later(today) : \E t2 \in Later(t1) :
         LET d == today - st[p].last_opened
             s0 == [st[p] EXCEPT !.day_count = @ + 1]
             s1 == IF d > 0 THEN AdvanceDays(s0, d, t1) ELSE s0
             s2 == IF flag[p] THEN Water(s1, t2) ELSE s1
         IN  /\ d > 0 \/ t1 = today
             /\ days' = [days EXCEPT ![p] = d]
             /\ st' = [st EXCEPT ![p] = s2]
             /\ today' = IF flag[p] THEN t2 ELSE IF d > 0 THEN t1 ELSE today
    /\ pc' = [pc EXCEPT ![p] = "save"]
    /\ UNCHANGED <<file, flag, out, loaded, last, rt, nOps>>

\* main, lines 131-138: the elapsed days, advance_days if positive, water
\* if asked; each of the three calls date.today() itself (t1 is the date
\* advance_days reads at line 96 when it is called with days > 0, t2 the
\* date water reads at line 103)
MainUpdate(p) ==
    /\ pc[p] = "loaded"
    /\ \E t1 \in Later(today) : \E t2 \in Later(t1) :
         LET d == today - st[p].last_opened
             s1 == IF d > 0 THEN AdvanceDays(st[p], d, t1) ELSE st[p]
             s2 == IF flag[p] THEN Water(s1, t2) ELSE s1
         IN  /\ d > 0 \/ t1 = today
             /\ days' = [days EXCEPT ![p] = d]
             /\ st' = [st EXCEPT ![p] = s2]
             /\ today' = IF flag[p] THEN t2 ELSE IF d > 0 THEN t1 ELSE today
    /\ pc' = [pc EXCEPT ![p] = "save"]
    /\ UNCHANGED <<file, flag, out, loaded, last, rt, nOps>>

\* mutant: days_idle is computed from the state after its mutation
MainSaveIdleAfter(p) ==
    /\ pc[p] = "save"
    /\ file' = SaveFile(st[p])
    /\ out' = [out EXCEPT ![p] =
                  BuildResponse(st[p], today - st[p].last_opened)]
    /\ pc' = [pc EXCEPT ![p] = "done"]
    /\ UNCHANGED <<today, st, flag, days, loaded, last, rt, nOps>>

\* mutant: save leaves a file alone that changed since this run loaded it
MainSaveUnlessChanged(p) ==
    /\ pc[p] = "save"
    /\ file' = IF file = SaveFile(loaded[p]) THEN SaveFile(st[p]) ELSE file
    /\ out' = [out EXCEPT ![p] = BuildResponse(st[p], days[p])]
    /\ pc' = [pc EXCEPT ![p] = "done"]
    /\ UNCHANGED <<today, st, flag, days, loaded, last, rt, nOps>>

\* main, lines 141-145: save, then the response is printed
MainSave(p) ==
    /\ pc[p] = "save"
    /\ file' = SaveFile(st[p])
    /\ out' = [out EXCEPT ![p] = BuildResponse(st[p], days[p])]
    /\ pc' = [pc EXCEPT ![p] = "done"]
    /\ UNCHANGED <<today, st, flag, days, loaded, last, rt, nOps>>

\* line 149: the process exits, and its objects with it
MainExit(p) ==
    /\ pc[p] = "done"
    /\ pc' = [pc EXCEPT ![p] = "idle"]
    /\ st' = [st EXCEPT ![p] = DefaultState(0)]
    /\ loaded' = [loaded EXCEPT ![p] = DefaultState(0)]
    /\ flag' = [flag EXCEPT ![p] = FALSE]
    /\ days' = [days EXCEPT ![p] = 0]
    /\ out' = [out EXCEPT ![p] = NoResponse]
    /\ last' = NoCall
    /\ UNCHANGED <<file, today, rt, nOps>>

\* an exception raised in load() leaves main (line 149) or the client:
\* the process ends with a traceback and nothing more is written
Unwind(p) ==
    /\ pc[p] = "raised"
    /\ pc' = [pc EXCEPT ![p] = "idle"]
    /\ st' = [st EXCEPT ![p] = DefaultState(0)]
    /\ loaded' = [loaded EXCEPT ![p] = DefaultState(0)]
    /\ flag' = [flag EXCEPT ![p] = FALSE]
    /\ last' = NoCall
    /\ rt' = 0
    /\ UNCHANGED <<file, today, days, out, nOps>>

(* --------------------------- library sessions -------------------------- *)
\* a client of the class calls PlantState.load() and then any of the
\* methods on the object it got, in any order

LibLoad(p) ==
    /\ pc[p] \in {"idle", "lib"}
    /\ IF LoadRaises(file)
       THEN /\ pc' = [pc EXCEPT ![p] = "raised"]
            /\ rt' = IF rt = 2 THEN 4 ELSE 0
            /\ UNCHANGED <<file, st>>
       ELSE /\ pc' = [pc EXCEPT ![p] = "lib"]
            /\ st' = [st EXCEPT ![p] = LoadState(file, today)]
            /\ file' = LoadFile(file, today)
            /\ rt' = IF rt = 2 THEN 3 ELSE 1
    /\ last' = NoCall
    /\ UNCHANGED <<today, flag, days, out, loaded, nOps>>

LibAdvanceDays(p, d) ==
    /\ pc[p] = "lib"
    /\ nOps < MaxOps
    /\ nOps' = nOps + 1
    /\ st' = [st EXCEPT ![p] = AdvanceDays(st[p], d, today)]
    /\ last' = Call("advance_days", d)
    /\ rt' = 0
    /\ UNCHANGED <<file, today, pc, flag, days, out, loaded>>

LibWater(p) ==
    /\ pc[p] = "lib"
    /\ nOps < MaxOps
    /\ nOps' = nOps + 1
    /\ st' = [st EXCEPT ![p] = Water(st[p], today)]
    /\ last' = Call("water", 0)
    /\ rt' = 0
    /\ UNCHANGED <<file, today, pc, flag, days, out, loaded>>

LibSave(p) ==
    /\ pc[p] = "lib"
    /\ file' = SaveFile(st[p])
    /\ last' = Call("save", 0)
    /\ rt' = IF rt = 1 THEN 2 ELSE 0
    /\ UNCHANGED <<today, pc, st, flag, days, out, loaded, nOps>>

\* the client drops the object
LibDone(p) ==
    /\ pc[p] = "lib"
    /\ pc' = [pc EXCEPT ![p] = "idle"]
    /\ st' = [st EXCEPT ![p] = DefaultState(0)]
    /\ last' = NoCall
    /\ rt' = 0
    /\ UNCHANGED <<file, today, flag, days, out, loaded, nOps>>

(* ----------------------------- specifications -------------------------- *)

\* one widget instance: runs of main and library sessions, one after another
Next ==
    \/ Tick
    \/ ClockBack
    \/ \E w \in BOOLEAN : MainLoad("w1", w)
    \/ MainUpdate("w1")
    \/ MainSave("w1")
    \/ MainExit("w1")
    \/ Unwind("w1")
    \/ LibLoad("w1")
    \/ \E d \in Deltas : LibAdvanceDays("w1", d)
    \/ LibWater("w1")
    \/ LibSave("w1")
    \/ LibDone("w1")

Spec == Init /\ [][Next]_vars


(* ------------------------ constructed states --------------------------- *)
\* PlantState is a dataclass: a client may also build one from any values

ConstructedExtra ==
    {EmptyMap} \cup
    {[k \in K |-> JInt(7)] : K \in {{"theme"}, {"growth_stage"},
                                     {"last_opened", "day_count", "theme"}}}

Construct(p, lo, gs, dc, ex) ==
    /\ pc[p] = "idle"
    /\ pc' = [pc EXCEPT ![p] = "lib"]
    /\ st' = [st EXCEPT ![p] = PlantState(lo, gs, dc, ex)]
    /\ last' = Call("construct", 0)
    /\ rt' = 0
    /\ UNCHANGED <<file, today, flag, days, out, loaded, nOps>>

NextCtor ==
    \/ Tick
    \/ \E gs \in 0..MAX_STAGE_INDEX, dc \in {1, MaxStored},
          ex \in ConstructedExtra : Construct("w1", 0, gs, dc, ex)
    \/ \E d \in Deltas : LibAdvanceDays("w1", d)
    \/ LibWater("w1")
    \/ LibSave("w1")
    \/ LibDone("w1")

\* no record yet
InitCtor ==
    /\ Init
    /\ file = FileAbsent

\* a library client that builds its states itself
SpecCtor == InitCtor /\ [][NextCtor]_vars

(* ------------------------- two widget instances ------------------------ *)
\* two processes run main once each on the same data.json; nothing locks
\* the file, so the load (line 130) and the save (line 141) of the two
\* interleave freely; what a finished run loaded and computed stays visible

\* a record that main wrote earlier, or none yet
RaceFiles ==
    {FileAbsent} \cup
    {FileObject(Payload(PlantState(lo, gs, dc, EmptyMap))) :
        lo \in {0, MaxDate}, gs \in 0..MAX_STAGE_INDEX, dc \in {1, MaxStored}}

InitRace ==
    /\ Init
    /\ file \in RaceFiles
    /\ today \in {0, 1}

NextRace ==
    \/ Tick
    \/ \E p \in Procs :
        \/ \E w \in BOOLEAN : MainLoad(p, w)
        \/ MainUpdate(p)
        \/ MainSave(p)

SpecRace == InitRace /\ [][NextRace]_vars

(* ---------------------------- successive runs -------------------------- *)
\* w1 is a run of main and w2 the run that follows it on the same record;
\* what the finished run loaded, computed and printed stays visible

NextSeq ==
    \/ Tick
    \/ \E w \in BOOLEAN : MainLoad("w1", w)
    \/ MainUpdate("w1")
    \/ MainSave("w1")
    \/ pc["w1"] = "done" /\ \E w \in BOOLEAN : MainLoad("w2", w)
    \/ MainUpdate("w2")
    \/ MainSave("w2")

\* a record that main wrote earlier, with or without a key of a later
\* version, or none yet, or one that does not parse
SeqFiles ==
    RaceFiles \cup {FileCorrupt} \cup
    {FileObject(Payload(PlantState(lo, gs, dc, [k \in ExtraKeys |-> JText]))) :
        lo \in {0, MaxDate}, gs \in 0..MAX_STAGE_INDEX, dc \in {1, MaxStored}}

InitSeq ==
    /\ Init
    /\ file \in SeqFiles
    /\ today \in {0, 1}

SpecSeq == InitSeq /\ [][NextSeq]_vars

(* ------------------------------ properties ----------------------------- *)

\* the instance holds a PlantState that load() returned
Holds(p) == pc[p] \in {"loaded", "save", "done", "lib"}

\* this step is a load() of p that returned
LoadReturned(p) ==
    \/ pc[p] = "idle" /\ pc'[p] = "loaded"
    \/ pc[p] \in {"idle", "lib"} /\ pc'[p] = "lib" /\ rt' \in {1, 3}

\* this step is a call of advance_days or water by the library client p
LibCalls(p, op) ==
    pc[p] = "lib" /\ pc'[p] = "lib" /\ nOps' = nOps + 1 /\ last'.op = op

\* this step is the save() of p's run of main
MainSaves(p) == pc[p] = "save" /\ pc'[p] = "done"

\* the record f holds an integer under key
HasInt(f, key) ==
    f.kind = "object" /\ key \in DOMAIN f.obj /\ f.obj[key].t = "int"


(* C1: every state load() returns, and every state reached from it by       *)
(* advance_days and water, has 0 <= growth_stage <= 3; load() maps a stored *)
(* integer growth_stage g to max(0, min(g, 3)).                             *)
C1_StageInRange ==
    /\ [](\A p \in Procs : Holds(p) =>
            st[p].growth_stage >= 0 /\ st[p].growth_stage <= 3)
    /\ [][\A p \in Procs :
            LoadReturned(p) /\ HasInt(file, "growth_stage") =>
                LET g == file.obj["growth_stage"].v
                IN  st'[p].growth_stage =
                        (IF g < 0 THEN 0 ELSE IF g > 3 THEN 3 ELSE g)]_vars

\* a record holding a growth_stage above 3 was loaded as stage 3, and a
\* library call has acted on the state since
C1_Witness ==
    \E p \in Procs :
        /\ pc[p] = "lib"
        /\ HasInt(file, "growth_stage")
        /\ file.obj["growth_stage"].v > 3
        /\ last.op \in {"advance_days", "water"}
        /\ st[p].growth_stage = 3

\* the growth_stage a record holds, when it is an integer in 0..3
StageOf(f) == f.obj["growth_stage"].v
HasStage(f) ==
    HasInt(f, "growth_stage") /\ StageOf(f) >= 0 /\ StageOf(f) <= 3

(* C2: from one run of main to the next the persisted growth_stage never    *)
(* decreases, it changes only in a run whose days_since_last_open > 0 or    *)
(* whose water flag is set, and once it is 3 it stays 3.                    *)
C2_StageMonotone ==
    [][\A p \in Procs :
        MainSaves(p) /\ HasStage(file) =>
            /\ HasStage(file')
            /\ StageOf(file') >= StageOf(file)
            /\ (StageOf(file') # StageOf(file) => days[p] > 0 \/ flag[p])
            /\ (StageOf(file) = 3 => StageOf(file') = 3)]_vars

\* a run that loaded bloom saved bloom, with another day_count and
\* last_opened
C2_Witness ==
    \E p \in Procs :
        /\ pc[p] = "done"
        /\ loaded[p].growth_stage = 3
        /\ HasStage(file) /\ StageOf(file) = 3
        /\ file.obj["day_count"].v > loaded[p].day_count
        /\ file.obj["last_opened"] # Isoformat(loaded[p].last_opened)

\* the day_count a record holds, when int() accepts it
HasCount(f) ==
    f.kind = "object" /\ "day_count" \in DOMAIN f.obj
        /\ f.obj["day_count"].t \in {"int", "numstr"}
CountOf(f) == f.obj["day_count"].v

(* C3: day_count is always >= 1 in a state load() returned and in a record  *)
(* the program wrote, and the day_count of a later record is never smaller  *)
(* than that of an earlier one.                                             *)
C3_DayCountMonotone ==
    /\ [](\A p \in Procs : Holds(p) => st[p].day_count >= 1)
    /\ [][file' # file =>
            /\ HasInt(file', "day_count")
            /\ CountOf(file') >= 1
            /\ (HasCount(file) => CountOf(file') >= CountOf(file))]_vars

\* a run that found days elapsed wrote a larger day_count than it loaded
C3_Witness ==
    \E p \in Procs :
        /\ pc[p] = "done"
        /\ days[p] > 0
        /\ HasInt(file, "day_count")
        /\ CountOf(file) = loaded[p].day_count + days[p]

(* C4, as claimed: every state load() returns has growth_stage in [0,3] and *)
(* day_count >= max(1, growth_stage + 1), and day_count >= growth_stage + 1 *)
(* in every state reached from it by advance_days and water.                *)
C4_Original ==
    \A p \in Procs : Holds(p) =>
        /\ st[p].growth_stage \in 0..3
        /\ st[p].day_count >= 1
        /\ st[p].day_count >= st[p].growth_stage + 1

\* this step is a call of advance_days or water by p
Mutates(p) ==
    \/ LibCalls(p, "advance_days")
    \/ LibCalls(p, "water")
    \/ pc[p] = "loaded" /\ pc'[p] = "save"

(* C4, amended: every state load() returns has growth_stage in [0,3] and    *)
(* day_count >= 1; day_count >= growth_stage + 1 holds in it when the       *)
(* record has no day_count key, holds after every water(), and once it      *)
(* holds it keeps holding under advance_days and water.                     *)
C4_Amended ==
    /\ [](\A p \in Procs : Holds(p) =>
            st[p].growth_stage \in 0..3 /\ st[p].day_count >= 1)
    /\ [][\A p \in Procs :
            /\ (LoadReturned(p) /\ file.kind = "object"
                    /\ "day_count" \notin DOMAIN file.obj =>
                  st'[p].day_count >= st'[p].growth_stage + 1)
            /\ (LibCalls(p, "water") =>
                  st'[p].day_count >= st'[p].growth_stage + 1)
            /\ (Mutates(p) /\ st[p].day_count >= st[p].growth_stage + 1 =>
                  st'[p].day_count >= st'[p].growth_stage + 1)]_vars

\* a record with day_count below growth_stage + 1 was loaded, and water()
\* has repaired the relation
C4_Witness ==
    \E p \in Procs :
        /\ pc[p] = "lib"
        /\ last.op = "water"
        /\ HasStage(file) /\ HasInt(file, "day_count")
        /\ CountOf(file) >= 1
        /\ CountOf(file) < StageOf(file) + 1
        /\ st[p].day_count = st[p].growth_stage + 1

(* C5: load() never surfaces an error to its caller.                        *)
C5_LoadNeverRaises ==
    \A p \in Procs : pc[p] # "raised"


(* C6: the record save() writes carries under last_opened, growth_stage and *)
(* day_count the values of the state's own fields, whatever keys the        *)
(* state's extra mapping holds.                                             *)
C6_KnownKeysKept ==
    \A p \in Procs :
        pc[p] = "lib" /\ last.op = "save" =>
            /\ file.kind = "object"
            /\ file.obj["last_opened"] = [t |-> "date", v |-> st[p].last_opened]
            /\ file.obj["growth_stage"] = [t |-> "int", v |-> st[p].growth_stage]
            /\ file.obj["day_count"] = [t |-> "int", v |-> st[p].day_count]

(* C7: load(), then save(), then load(), with the date unchanged, yields    *)
(* the state the first load() returned: the second load() returns, and      *)
(* with the same last_opened, growth_stage, day_count and extra.            *)
C7_RoundTrip ==
    /\ [](rt # 4)
    /\ [][rt = 2 /\ rt' = 3 =>
            \A p \in Procs : pc[p] = "lib" => st'[p] = st[p]]_vars

\* the round trip was made with a state holding an unknown key and a
\* last_opened that is not the date of the calls
C7_Witness ==
    \E p \in Procs :
        /\ pc[p] = "lib"
        /\ rt = 3
        /\ "theme" \in DOMAIN st[p].extra
        /\ st[p].growth_stage > 0
        /\ st[p].last_opened # today

(* C8: every key other than last_opened, growth_stage and day_count of a    *)
(* loaded record is in the record the next save() writes, with the same     *)
(* value, and neither advance_days nor water changes extra.                 *)
C8_ExtraPreserved ==
    [][/\ (file' # file /\ file.kind = "object" =>
              /\ file'.kind = "object"
              /\ \A k \in DOMAIN file.obj \ known_keys :
                    k \in DOMAIN file'.obj /\ file'.obj[k] = file.obj[k])
       /\ \A p \in Procs :
              /\ (LoadReturned(p) /\ file.kind = "object" =>
                    \A k \in DOMAIN file.obj \ known_keys :
                        k \in DOMAIN st'[p].extra
                            /\ st'[p].extra[k] = file.obj[k])
              /\ (Mutates(p) => st'[p].extra = st[p].extra)]_vars

\* a run that loaded a record with an unknown key watered the plant and
\* wrote the key back
C8_Witness ==
    \E p \in Procs :
        /\ pc[p] = "done"
        /\ flag[p]
        /\ st[p].growth_stage > loaded[p].growth_stage
        /\ "theme" \in DOMAIN loaded[p].extra
        /\ "theme" \in DOMAIN file.obj
        /\ file.obj["theme"] = loaded[p].extra["theme"]

(* C9: advance_days(days) with days > 0 sets growth_stage to                *)
(* min(growth_stage + days, 3), adds exactly days to day_count and sets     *)
(* last_opened to today.                                                    *)
C9_AdvanceDays ==
    [][\A p \in Procs :
        LibCalls(p, "advance_days") /\ last'.arg > 0 =>
            LET d == last'.arg
                g == st[p].growth_stage + d
            IN  /\ st'[p].growth_stage = (IF g > 3 THEN 3 ELSE g)
                /\ st'[p].day_count = st[p].day_count + d
                /\ st'[p].last_opened = today
                /\ st'[p].extra = st[p].extra]_vars

\* advance_days(5) on the state loaded from a record at stage 1: stage 3,
\* day_count + 5
C9_Witness ==
    \E p \in Procs :
        /\ pc[p] = "lib"
        /\ last = [op |-> "advance_days", arg |-> 5]
        /\ HasStage(file) /\ StageOf(file) = 1
        /\ HasInt(file, "day_count") /\ CountOf(file) >= 1
        /\ st[p].growth_stage = 3
        /\ st[p].day_count = CountOf(file) + 5

(* C10: advance_days(days) with days <= 0 changes nothing; a run of main    *)
(* without --water whose today is on or before the last_opened it loaded    *)
(* writes the growth_stage, day_count and last_opened it loaded.            *)
C10_NoAdvance ==
    /\ [][\A p \in Procs :
            LibCalls(p, "advance_days") /\ last'.arg <= 0 => st'[p] = st[p]]_vars
    /\ [](\A p \in Procs :
            pc[p] = "done" /\ ~flag[p] /\ days[p] <= 0 =>
                /\ file.kind = "object"
                /\ file.obj["growth_stage"] = [t |-> "int", v |-> loaded[p].growth_stage]
                /\ file.obj["day_count"] = [t |-> "int", v |-> loaded[p].day_count]
                /\ file.obj["last_opened"] = [t |-> "date", v |-> loaded[p].last_opened])

\* a run without --water on a date before the stored last_opened has
\* written the record
C10_Witness ==
    \E p \in Procs :
        /\ pc[p] = "done"
        /\ ~flag[p]
        /\ days[p] < 0
        /\ loaded[p].growth_stage > 0
        /\ file.obj["last_opened"].v > today


(* C11: water() raises growth_stage by exactly 1 when it is below 3 and     *)
(* leaves it at 3 otherwise, then sets day_count to the larger of the old   *)
(* day_count and the new growth_stage + 1, and sets last_opened to today.   *)
C11_Water ==
    [][\A p \in Procs :
        LibCalls(p, "water") =>
            LET g == st[p].growth_stage
                c == st[p].day_count
                g2 == st'[p].growth_stage
                c2 == st'[p].day_count
            IN  /\ (g < 3 => g2 = g + 1)
                /\ (g >= 3 => g2 = g)
                /\ c2 = (IF c >= g2 + 1 THEN c ELSE g2 + 1)
                /\ c2 >= c
                /\ c2 >= g2 + 1
                /\ st'[p].last_opened = today
                /\ st'[p].extra = st[p].extra]_vars

\* water() on the state loaded from a record at stage 2 with a day_count
\* below 4: stage 3, day_count 4
C11_Witness ==
    \E p \in Procs :
        /\ pc[p] = "lib"
        /\ last.op = "water"
        /\ nOps = 1
        /\ HasStage(file) /\ StageOf(file) = 2
        /\ HasInt(file, "day_count") /\ CountOf(file) < 4
        /\ st[p].growth_stage = 3
        /\ st[p].day_count = 4
        /\ st[p].last_opened = today


(* C12: a run of main that loaded (g, c) and found d days elapsed saves     *)
(* (min(g + d, 3), c + d) if d > 0 and (g, c) otherwise, after applying to  *)
(* it, if --water was given, the water step: load, advance, water, save.    *)
C12_RunOrder ==
    \A p \in Procs :
        pc[p] = "done" =>
            LET g == loaded[p].growth_stage
                c == loaded[p].day_count
                d == days[p]
                g1 == IF d > 0 THEN (IF g + d > 3 THEN 3 ELSE g + d) ELSE g
                c1 == IF d > 0 THEN c + d ELSE c
                g2 == IF flag[p] /\ g1 < 3 THEN g1 + 1 ELSE g1
                c2 == IF flag[p] /\ c1 < g2 + 1 THEN g2 + 1 ELSE c1
            IN  /\ file.kind = "object"
                /\ file.obj["growth_stage"] = [t |-> "int", v |-> g2]
                /\ file.obj["day_count"] = [t |-> "int", v |-> c2]

\* last_opened 5 days ago, stage 0, day_count 1, no flag: the run saved
\* stage 3, day_count 6
C12_Witness ==
    \E p \in Procs :
        /\ pc[p] = "done"
        /\ ~flag[p]
        /\ days[p] = 5
        /\ loaded[p].growth_stage = 0
        /\ loaded[p].day_count = 1
        /\ file.obj["growth_stage"].v = 3
        /\ file.obj["day_count"].v = 6


(* C13: the response's days_idle is today - last_opened as computed right   *)
(* after load, before advance_days and water, and is_wilted is true iff     *)
(* that days_idle > 3; watering in the same run changes neither.            *)
C13_DaysIdle ==
    /\ [][\A p \in Procs :
            pc[p] = "loaded" /\ pc'[p] = "save" =>
                days'[p] = today - loaded[p].last_opened]_vars
    /\ [](\A p \in Procs :
            pc[p] = "done" =>
                /\ out[p].days_idle = days[p]
                /\ (out[p].is_wilted <=> out[p].days_idle > 3))

\* a run with --water after more than 3 idle days: the state it saved was
\* opened today, and the response still says wilted
C13_Witness ==
    \E p \in Procs :
        /\ pc[p] = "done"
        /\ flag[p]
        /\ days[p] > 3
        /\ st[p].last_opened = today
        /\ out[p].is_wilted
        /\ out[p].days_idle = days[p]


\* the response of a first run: a seed, opened today
SeedResponse ==
    [stage |-> "seed", stage_index |-> 0, day |-> 1,
     image |-> "assets/plant_seed.png", is_wilted |-> FALSE, days_idle |-> 0]

\* load() of an absent or unparseable file returns the default state and
\* has written exactly that state
LoadsDefault ==
    \A p \in Procs :
        LoadReturned(p) /\ file.kind \in {"absent", "corrupt"} =>
            /\ st'[p] = [last_opened |-> today, growth_stage |-> 0,
                         day_count |-> 1, extra |-> EmptyMap]
            /\ file'.kind = "object"
            /\ DOMAIN file'.obj = known_keys
            /\ file'.obj["last_opened"] = [t |-> "date", v |-> today]
            /\ file'.obj["growth_stage"] = [t |-> "int", v |-> 0]
            /\ file'.obj["day_count"] = [t |-> "int", v |-> 1]

BothWateredSameDay ==
    \A p \in Procs : pc[p] = "done" /\ flag[p] /\ days[p] = 0

(* C15: save() replaces the whole file with the saving run's state, so the  *)
(* run that saves last determines the record; two same-day --water runs     *)
(* that both loaded stage s <= 1 leave s + 1, run one after the other they  *)
(* leave s + 2.                                                             *)
C15_LastWriterWins ==
    /\ [][\A p \in Procs : MainSaves(p) =>
            /\ file'.kind = "object"
            /\ DOMAIN file'.obj = known_keys \cup DOMAIN st[p].extra
            /\ file'.obj["last_opened"] = [t |-> "date", v |-> st[p].last_opened]
            /\ file'.obj["growth_stage"] = [t |-> "int", v |-> st[p].growth_stage]
            /\ file'.obj["day_count"] = [t |-> "int", v |-> st[p].day_count]]_vars
    /\ [](BothWateredSameDay /\ loaded["w1"].growth_stage <= 1 =>
            /\ loaded["w2"].growth_stage = loaded["w1"].growth_stage =>
                   StageOf(file) = loaded["w1"].growth_stage + 1
            /\ loaded["w2"].growth_stage = st["w1"].growth_stage =>
                   StageOf(file) = loaded["w1"].growth_stage + 2)

\* both loaded stage 1 before either saved: the record holds stage 2, and
\* one watering is lost
C15_Witness ==
    /\ BothWateredSameDay
    /\ loaded["w1"].growth_stage = 1
    /\ loaded["w2"].growth_stage = 1
    /\ st["w1"].growth_stage = 2
    /\ st["w2"].growth_stage = 2
    /\ StageOf(file) = 2


\* w1 and then w2 ran main without --water, w2 on the record w1 had saved,
\* and w2's record is the one on disk
TwoRunsNoWater ==
    /\ \A p \in Procs : pc[p] = "done" /\ ~flag[p]
    /\ loaded["w2"] = st["w1"]
    /\ file = SaveFile(st["w2"])

(* C16: day ticks are counted once: from a record with last_opened = L and  *)
(* day_count = c, after one or two runs of main without --water under a     *)
(* date that never decreases, the last on date T >= L, the persisted        *)
(* day_count is c + (T - L).                                                *)
C16_NoDoubleCount ==
    /\ \A p \in Procs :
          pc[p] = "done" /\ ~flag[p] /\ days[p] >= 0
              /\ file = SaveFile(st[p]) =>
                  CountOf(file) = loaded[p].day_count + days[p]
    /\ TwoRunsNoWater =>
          LET L == loaded["w1"].last_opened
              c == loaded["w1"].day_count
              T == loaded["w2"].last_opened + days["w2"]
          IN  T >= L => CountOf(file) = c + (T - L)


\* the date p's run read at line 131
RunDate(p) == loaded[p].last_opened + days[p]

\* p's run has computed its state
Updated(p) == pc[p] \in {"save", "done"}

\* the record on disk is the one p's run saved
Persisted(p) == pc[p] = "done" /\ (p = "w1" => pc["w2"] # "done")

\* p's run loaded a last_opened after its date, and was not asked to water
FutureNoWater(p) == loaded[p].last_opened > RunDate(p) /\ ~flag[p]

\* without elapsed days a run changes nothing but what water() changes;
\* a last_opened that the date has passed counts from last_opened
GrowthSuppressed ==
    \A p \in Procs :
        /\ Updated(p) /\ days[p] <= 0 /\ ~flag[p] => st[p] = loaded[p]
        /\ Updated(p) /\ days[p] <= 0 /\ flag[p] =>
              /\ st[p].growth_stage = Min(loaded[p].growth_stage + 1, MAX_STAGE_INDEX)
              /\ st[p].day_count =
                    Max(loaded[p].day_count, st[p].growth_stage + 1)
        /\ Updated(p) /\ days[p] > 0 /\ ~flag[p] =>
              st[p].day_count = loaded[p].day_count + days[p]

(* C17, as claimed: after a completed run the persisted last_opened is on   *)
(* or after the run's today, and equal to it unless the loaded last_opened  *)
(* was in the future and no water was requested; every run after the first  *)
(* computes days_idle >= 0; a last_opened in the future suppresses          *)
(* elapsed-day growth.                                                      *)
C17_Original ==
    /\ \A p \in Procs : Persisted(p) =>
          /\ file.obj["last_opened"].v >= RunDate(p)
          /\ ~FutureNoWater(p) => file.obj["last_opened"].v = RunDate(p)
    /\ Updated("w2") => days["w2"] >= 0
    /\ GrowthSuppressed

(* C17, amended: the persisted last_opened is on or after the run's today;  *)
(* unless the loaded one was in the future and no water was requested, it   *)
(* is a date the clock has shown since, today unless midnight passed during *)
(* the run; the run after a run computes days_idle >= 0 unless that first   *)
(* run loaded a last_opened in the future and did not water; a last_opened  *)
(* in the future suppresses elapsed-day growth.                             *)
C17_Amended ==
    /\ \A p \in Procs : Persisted(p) =>
          /\ file.obj["last_opened"].v >= RunDate(p)
          /\ ~FutureNoWater(p) => file.obj["last_opened"].v <= today
          /\ ~FutureNoWater(p) /\ days[p] = 0 /\ ~flag[p] =>
                file.obj["last_opened"].v = RunDate(p)
    /\ Updated("w2") => days["w2"] >= 0 \/ FutureNoWater("w1")
    /\ GrowthSuppressed

\* the record was dated ahead: the first run left it alone, and the second
\* run computed a negative days_idle and left it alone too
C17_Witness ==
    /\ pc["w2"] = "done"
    /\ FutureNoWater("w1")
    /\ ~flag["w2"]
    /\ days["w2"] < 0
    /\ st["w2"] = loaded["w1"]
    /\ file.obj["last_opened"].v > today


\* w2 ran without --water on the date of w1's run, and has saved
SameDayRerun ==
    /\ pc["w2"] = "done"
    /\ ~flag["w2"]
    /\ RunDate("w2") = RunDate("w1")

(* C18: a further run of main on the same calendar date without --water     *)
(* writes the record it loaded, the one the run before it wrote: the same   *)
(* last_opened, growth_stage, day_count and extra keys.                     *)
C18_SameDayIdempotent ==
    SameDayRerun =>
        /\ st["w2"] = loaded["w2"]
        /\ file.kind = "object"
        /\ DOMAIN file.obj = known_keys \cup DOMAIN st["w1"].extra
        /\ file.obj["last_opened"] = [t |-> "date", v |-> st["w1"].last_opened]
        /\ file.obj["growth_stage"] = [t |-> "int", v |-> st["w1"].growth_stage]
        /\ file.obj["day_count"] = [t |-> "int", v |-> st["w1"].day_count]
        /\ \A k \in DOMAIN st["w1"].extra : file.obj[k] = st["w1"].extra[k]

\* the first run advanced and watered a record with a key of a later
\* version; the second, the same day, rewrote what the first had written
C18_Witness ==
    /\ SameDayRerun
    /\ flag["w1"]
    /\ days["w1"] > 0
    /\ st["w1"].growth_stage = loaded["w1"].growth_stage + 2
    /\ "theme" \in DOMAIN file.obj
    /\ file = SaveFile(st["w1"])


\* the stage name and the image path the response must carry for an index
NameAndImage(i) ==
    CASE i = 0 -> <<"seed", "assets/plant_seed.png">>
      [] i = 1 -> <<"sprout", "assets/plant_sprout.png">>
      [] i = 2 -> <<"leaf", "assets/plant_leaf.png">>
      [] i = 3 -> <<"bloom", "assets/plant_bloom.png">>

(* C19: the response of a run of main describes the state the run saved:    *)
(* stage_index is the saved growth_stage, day the saved day_count, stage    *)
(* the name at that index of [seed, sprout, leaf, bloom], image the path    *)
(* assets/plant_<stage>.png of that name; the index is within the list.     *)
C19_ResponseMatchesSaved ==
    \A p \in Procs :
        /\ pc[p] = "save" => st[p].growth_stage \in 0..3
        /\ pc[p] = "done" =>
              /\ file.kind = "object"
              /\ file.obj["growth_stage"] = [t |-> "int", v |-> out[p].stage_index]
              /\ file.obj["day_count"] = [t |-> "int", v |-> out[p].day]
              /\ out[p].stage_index \in 0..3
              /\ out[p].stage = NameAndImage(out[p].stage_index)[1]
              /\ out[p].image = NameAndImage(out[p].stage_index)[2]

\* a run that advanced and watered: the response carries the stage and the
\* day after both, not the ones loaded
C19_Witness ==
    \E p \in Procs :
        /\ pc[p] = "done"
        /\ flag[p]
        /\ days[p] > 0
        /\ loaded[p].growth_stage = 0
        /\ out[p].stage = "leaf"
        /\ out[p].image = "assets/plant_leaf.png"
        /\ out[p].stage_index = 2
        /\ out[p].day > loaded[p].day_count
        /\ StageOf(file) = 2

=============================================================================
